---- MODULE Spec2Model ----
(***************************************************************************)
(* Model of the rate limiter core of distributed-rate-limiter              *)
(* (internal/ratelimiter): the three drivers (Fixed Window, Sliding Window, *)
(* Token Bucket), their store-side Lua scripts and the shared store.        *)
(*                                                                          *)
(* Time is counted in ticks; one second is TicksPerSec ticks.  Durations    *)
(* (time.Duration) and instants (time.Time, as offset from the Unix epoch)  *)
(* are integers in ticks.  A Unix timestamp in whole seconds is the floor   *)
(* of an instant divided by TicksPerSec, as time.Time.Unix() computes it.   *)
(*                                                                          *)
(* Floating point values of the code (the weighted count, the token count)  *)
(* are kept as exact rationals: a value v is held as the integer v * window *)
(* so that every comparison of the code is an integer comparison here.      *)
(***************************************************************************)
EXTENDS Integers, Sequences, FiniteSets, TLC

\* ---------------------------------------------------------------- bounds
TicksPerSec == 4
\* the clock is observed every ClockStep ticks
ClockStep == 2
MaxTime == 4
MaxCalls == 3
\* longest time, in ticks, between a driver reading its clock and the store
\* running the script of that call
MaxLag == 2
MaxLimit == 2
\* number of store round trips that may fail
MaxFaults == 1

\* ------------------------------------------------------------- constants
\* Days between the zero time.Time (January 1, year 1) and the Unix epoch;
\* time.Truncate rounds relative to the zero time, not to the epoch.
ZeroTimeDays == 719162
SecondsPerDay == 86400
\* Window bounds accepted by Config.Validate, in milliseconds.
MinWindowMillis == 1
MaxWindowDays == 365

Algorithms == {"fixed_window", "sliding_window", "token_bucket"}
\* 1/TicksPerSec s (sub-second), 1 s (whole) and 1.5 s (non-whole second)
Windows == {1, TicksPerSec, TicksPerSec + (TicksPerSec \div 2)}
Limits == 1..MaxLimit
Prefixes == {""}
\* caller keys are opaque strings; they may hold the separator themselves
Callers == {"u", "u:0"}
\* The limiter instances (servers).  They are built from the same config and
\* share the store; an instance holds the config and the store handle only.
Servers == {"server1", "server2"}
\* Calls reach the instances in turn (a round-robin balancer in front of them).
ServerFor(i) == IF i % 2 = 0 THEN "server1" ELSE "server2"
\* the costs n a caller asks for: a single unit, the whole limit, one more than the limit
Costs(c) == {1, c.limit, c.limit + 1}
BadCosts == {0, -1}
\* the cost of a call whose store round trip fails: Allow(key), that is AllowN(key, 1)
FailCosts == {1}
\* the empty caller key, which Allow and AllowN are handed like any other
EmptyKey == ""

DefaultPrefix == "ratelimit"
\* time.Time{}: the zero instant, which lies before every instant of the model
ZeroTime == -1
NoExpiry == -1

Max(a, b) == IF a >= b THEN a ELSE b
Min(a, b) == IF a <= b THEN a ELSE b

\* ------------------------------------------------------------ config
WithDefaults(c) ==
    [c EXCEPT !.prefix = IF c.prefix = "" THEN DefaultPrefix ELSE c.prefix]

\* time.Millisecond in ticks, rounded up: the shortest window of whole ticks
\* that is not below 1 ms
MinWindow == (MinWindowMillis * TicksPerSec + 999) \div 1000

\* window is given in ticks; 1 tick >= 1 ms for every TicksPerSec <= 1000
Validate(c) ==
    IF c.algorithm = "" THEN "algorithm is required"
    ELSE IF c.algorithm \notin Algorithms THEN "unknown algorithm"
    ELSE IF c.limit <= 0 THEN "limit must be greater than 0"
    ELSE IF c.window <= 0 THEN "window must be greater than 0"
    ELSE IF c.window < MinWindow THEN "window too small"
    ELSE IF c.window > MaxWindowDays * SecondsPerDay * TicksPerSec THEN "window too large"
    ELSE "ok"

KeyPrefix(c) == c.prefix

\* FormatKey with the caller key left out of the store key
FormatKey_noCaller(c, key) == KeyPrefix(c)

FormatKey(c, key) ==
    IF KeyPrefix(c) = "" THEN key ELSE KeyPrefix(c) \o ":" \o key

\* ------------------------------------------------------------ time
\* (offset of the Unix epoch from the zero time) mod d, computed without
\* leaving the 32-bit integers of the model checker
EpochOffsetMod(d) ==
    ((ZeroTimeDays % d) * ((SecondsPerDay * TicksPerSec) % d)) % d

\* time.Time.Truncate(d): round t down to a multiple of d since the zero time
Truncate(t, d) == IF d <= 0 THEN t ELSE t - ((t + EpochOffsetMod(d)) % d)

\* time.Time.Unix(): whole seconds since the epoch
Unix(t) == t \div TicksPerSec

\* time.Unix(sec, 0) as an instant
FromUnix(sec) == sec * TicksPerSec

\* int64(d.Seconds()): a duration in whole seconds, truncated
WholeSeconds(d) == d \div TicksPerSec

\* int64(d.Seconds() * 2)
WholeSecondsTwice(d) == (2 * d) \div TicksPerSec

\* ------------------------------------------------------------ store
\* The store maps the keys that exist to entries.  A counter is kept in val,
\* a token bucket hash in tokens (scaled by the window) and last (last_refill).
\* exp is the instant at which the key expires, NoExpiry when it has no TTL.
Exists(s, k) == k \in DOMAIN s

Entry(v, tk, l, e) == [val |-> v, tokens |-> tk, last |-> l, exp |-> e]

Put(s, k, e) == [x \in (DOMAIN s) \cup {k} |-> IF x = k THEN e ELSE s[x]]

\* DEL key [key ...]
Del(s, ks) == [x \in (DOMAIN s) \ ks |-> s[x]]

\* GET key, through tonumber(... or 0)
GetOrZero(s, k) == IF Exists(s, k) THEN s[k].val ELSE 0

\* INCRBY key n: creates the key at 0 when it is missing; a key keeps its TTL
INCRBY(s, k, n) ==
    IF Exists(s, k) THEN [s EXCEPT ![k].val = @ + n]
    ELSE Put(s, k, Entry(n, 0, 0, NoExpiry))

\* EXPIRE key seconds at instant t: nothing for a missing key; a timeout that
\* is not positive deletes the key at once
EXPIRE(s, k, secs, t) ==
    IF ~Exists(s, k) THEN s
    ELSE IF secs <= 0 THEN Del(s, {k})
    ELSE [s EXCEPT ![k].exp = t + secs * TicksPerSec]

\* the store's expiry: keys whose expiry instant has been reached are gone
Purge(s, t) ==
    [x \in {k \in DOMAIN s : s[k].exp = NoExpiry \/ s[k].exp > t} |-> s[x]]

EmptyStore == [x \in {} |-> Entry(0, 0, 0, NoExpiry)]

\* ------------------------------------------------------------ scripts
\* A script runs at the store without interleaving, at the store's instant t.
\* It yields the store it leaves behind and the reply.

\* fixedWindowScript: KEYS[1] counter, ARGV[1] n, ARGV[2] ttl seconds
fixedWindowScript(s, key, n, ttl, t) ==
    LET s1 == INCRBY(s, key, n)
        current == s1[key].val
        s2 == IF current = n THEN EXPIRE(s1, key, ttl, t) ELSE s1
    IN [store |-> s2, reply |-> <<current>>]

\* slidingWindowScript with the current key given the previous key's TTL
slidingWindowScript_currLivesOn(s, currKey, prevKey, n, currTTL, prevTTL, t) ==
    LET prev == GetOrZero(s, prevKey)
        s1 == INCRBY(s, currKey, n)
        curr == s1[currKey].val
        s2 == IF curr = n THEN EXPIRE(s1, currKey, prevTTL, t) ELSE s1
        s3 == EXPIRE(s2, prevKey, prevTTL, t)
    IN [store |-> s3, reply |-> <<prev, curr>>]

\* slidingWindowScript: KEYS[1] current, KEYS[2] previous, ARGV n, ttl, prev ttl
slidingWindowScript(s, currKey, prevKey, n, currTTL, prevTTL, t) ==
    LET prev == GetOrZero(s, prevKey)
        s1 == INCRBY(s, currKey, n)
        curr == s1[currKey].val
        s2 == IF curr = n THEN EXPIRE(s1, currKey, currTTL, t) ELSE s1
        s3 == EXPIRE(s2, prevKey, prevTTL, t)
    IN [store |-> s3, reply |-> <<prev, curr>>]

\* tokenBucketScript that refills the whole capacity every second, whatever
\* the window
tokenBucketScript_perSecond(s, key, capacity, requested, w, now, ttl, t) ==
    LET tokens0 == IF Exists(s, key) THEN s[key].tokens ELSE capacity * w
        last_refill == IF Exists(s, key) THEN s[key].last ELSE now
        elapsed == now - last_refill
        tokens_to_add == (elapsed * capacity * w) \div TicksPerSec
        tokens1 == Min(capacity * w, tokens0 + tokens_to_add)
        ok == tokens1 >= requested * w
        tokens2 == IF ok THEN tokens1 - requested * w ELSE tokens1
        s1 == Put(s, key, Entry(0, tokens2, now,
                                IF Exists(s, key) THEN s[key].exp ELSE NoExpiry))
        s2 == EXPIRE(s1, key, ttl, t)
    IN [store |-> s2, reply |-> <<IF ok THEN 1 ELSE 0, tokens2 \div w>>,
        refilled |-> tokens1, tokens |-> tokens2]

\* tokenBucketScript: token counts are scaled by the window w (in ticks), so
\* that elapsed * refill_rate = elapsed * capacity / w is elapsed * capacity.
\* now is the instant the caller sent (ARGV[4]); t is the store's own instant,
\* which only the TTL uses.
tokenBucketScript(s, key, capacity, requested, w, now, ttl, t) ==
    LET tokens0 == IF Exists(s, key) THEN s[key].tokens ELSE capacity * w
        last_refill == IF Exists(s, key) THEN s[key].last ELSE now
        elapsed == now - last_refill
        tokens_to_add == elapsed * capacity
        tokens1 == Min(capacity * w, tokens0 + tokens_to_add)
        ok == tokens1 >= requested * w
        tokens2 == IF ok THEN tokens1 - requested * w ELSE tokens1
        s1 == Put(s, key, Entry(0, tokens2, now,
                                IF Exists(s, key) THEN s[key].exp ELSE NoExpiry))
        s2 == EXPIRE(s1, key, ttl, t)
    IN [store |-> s2, reply |-> <<IF ok THEN 1 ELSE 0, tokens2 \div w>>,
        refilled |-> tokens1, tokens |-> tokens2]

\* ------------------------------------------------------------ drivers
\* formatKey of the two window drivers: "<prefix>:<caller>:<window start>"
formatKey(c, key, windowStart) == FormatKey(c, key) \o ":" \o ToString(windowStart)

\* calculateResetTime of the two window drivers
calculateResetTime(c, windowStart) == FromUnix(windowStart) + c.window

\* calculateResetTime of the token bucket: now + limit / refill_rate
tbCalculateResetTime(c, now) == now + c.window

\* now.Truncate(window).Unix()
windowStartOf(c, now) == Unix(Truncate(now, c.window))

\* previous window start of the sliding window driver
prevWindowStartOf(c, now) == windowStartOf(c, now) - WholeSeconds(c.window)

\* errors are the chain that errors.Is / errors.Unwrap walk, outermost first
NoError == <<>>
ErrInvalidN == <<"ErrInvalidN">>
WrapCheck(cause) == <<"failed to check rate limit", cause>>
WrapReset(cause) == <<"failed to reset rate limit", cause>>
\* what client.Eval(...).Result() reports when the round trip fails
TransportError == "transport error"
\* ctx.Err() of a cancelled context, which the client hands back
ContextCanceled == "context canceled"
\* what the client reports for every command after client.Close()
ClientClosed == "redis: client is closed"
\* why a store call fails: the transport (connection refused, timeout), or the
\* caller's context being cancelled
Causes == {TransportError, ContextCanceled}

\* the guard of AllowN taken with n < 0 only
invalidN_negativeOnly(n) == n < 0

\* the first statement of AllowN: if n <= 0 { return nil, ErrInvalidN }
invalidN(n) == n <= 0

\* What a call hands back: nil tells that the *Result is nil.
Outcome(nil, allowed, limit, remaining, retryAfterL, resetAt, err) ==
    [nil |-> nil, allowed |-> allowed, limit |-> limit, remaining |-> remaining,
     retryAfterL |-> retryAfterL, resetAt |-> resetAt, err |-> err]

NilResult(err) == Outcome(TRUE, FALSE, 0, 0, 0, ZeroTime, err)

\* the Result the drivers build when the store call fails and FailOpen is set
failOpenResult(c, resetAt) == Outcome(FALSE, TRUE, c.limit, 0, 0, resetAt, NoError)

\* the failure branch of AllowN: err != nil from the store call
onStoreError(c, resetAt, cause) ==
    IF c.failOpen THEN failOpenResult(c, resetAt) ELSE NilResult(WrapCheck(cause))

\* Reset that reports success when FailOpen is set
onResetError_failOpen(c, cause) ==
    IF c.failOpen THEN NilResult(NoError) ELSE NilResult(WrapReset(cause))

\* the failure branch of Reset: the error of client.Del, wrapped; Config.FailOpen
\* is not looked at
onResetError(c, cause) == NilResult(WrapReset(cause))

\* Close hands back what client.Close() returned, as it is
onClose(err) == NilResult(err)

\* retry_after is kept multiplied by the limit (retryAfterL), so that the
\* token bucket's (n - remaining) / refill_rate stays an integer
windowResult(c, allowed, remaining, resetAt, tReturn) ==
    Outcome(FALSE, allowed, c.limit, remaining,
            IF allowed THEN 0 ELSE Max(0, resetAt - tReturn) * c.limit,
            resetAt, NoError)

\* fixedWindowLimiter.AllowN after a reply: count is the script's reply
fixedWindowDecide(c, count, windowStart, tReturn) ==
    windowResult(c, count <= c.limit, Max(0, c.limit - count),
                 calculateResetTime(c, windowStart), tReturn)

\* calculateWeightedCount with the previous window left out
calculateWeightedCount_noPrev(c, now, windowStart, prevCount, currCount) ==
    currCount * c.window

\* calculateWeightedCount, times the window: prev * (window - elapsed) + curr * window
calculateWeightedCount(c, now, windowStart, prevCount, currCount) ==
    prevCount * (c.window - (now - FromUnix(windowStart))) + currCount * c.window

\* int64(x) of a float x = num / den (den > 0): truncation toward zero
TruncDiv(num, den) == IF num >= 0 THEN num \div den ELSE -((-num) \div den)

\* slidingWindowLimiter.AllowN after a reply
slidingWindowDecide(c, now, prevCount, currCount, windowStart, tReturn) ==
    LET wW == calculateWeightedCount(c, now, windowStart, prevCount, currCount)
    IN windowResult(c, wW <= c.limit * c.window,
                    Max(0, c.limit - TruncDiv(wW, c.window)),
                    calculateResetTime(c, windowStart), tReturn)

\* tokenBucketLimiter.AllowN that estimates the wait from the next whole
\* token above the count instead of the floor
tokenBucketDecide_fromCeiling(c, n, now, reply) ==
    LET allowed == reply[1] = 1
        remaining == reply[2]
    IN Outcome(FALSE, allowed, c.limit, remaining,
               IF allowed THEN 0 ELSE Max(0, (n - (remaining + 1)) * c.window),
               tbCalculateResetTime(c, now), NoError)

\* tokenBucketLimiter.AllowN after a reply <<allowed, remaining>>
tokenBucketDecide(c, n, now, reply) ==
    LET allowed == reply[1] = 1
        remaining == reply[2]
    IN Outcome(FALSE, allowed, c.limit, remaining,
               IF allowed THEN 0 ELSE Max(0, (n - remaining) * c.window),
               tbCalculateResetTime(c, now), NoError)

\* ------------------------------------------------------------ state
VARIABLES
    cfg,      \* the Config every limiter instance was built from
    clock,    \* the wall clock shared by the servers and the store
    store,    \* the shared store
    ret,      \* the call that returned last, with what it returned
    nops,     \* number of operations so far
    nfaults,  \* number of store round trips that failed so far
    tally,    \* history: per caller and window, what the store-decided calls got
    bucket,   \* history: per caller, admissions since the bucket was first empty
    closed    \* the instances whose Close has been called

vars == <<cfg, clock, store, ret, nops, nfaults, tally, bucket, closed>>

\* A call as the driver sees it before the store call: the caller key, the
\* cost and the clock value the driver read (time.Now()).
Call(srv, key, n, now) == [srv |-> srv, key |-> key, n |-> n, now |-> now]

\* how tells what became of the store call: "reply" (the script ran and its
\* reply arrived), "nostore" (the call failed, the script never ran), "lost"
\* (the script ran, the reply was lost), "cancelled" and "cancelled-ran" (the
\* same two with the caller's context cancelled), "closed" (the client had
\* been closed), "rejected" (no store call was made)
Returned(op, call, how, counts, out) ==
    [op |-> op, key |-> call.key, n |-> call.n, now |-> call.now,
     at |-> clock, how |-> how, counts |-> counts, out |-> out]

\* calls, asked, admitted: number of calls the store decided, units they asked
\* for, units admitted; servers: the instances that admitted; reset: a Reset
\* fell into the window; late: the store ran a script of the window after the
\* instant its driver had read; lost: a reply of the window was lost
NoTally == [calls |-> 0, asked |-> 0, admitted |-> 0, servers |-> {},
            reset |-> FALSE, late |-> FALSE, lost |-> FALSE]
TallyOf(tl, key, ws) == IF <<key, ws>> \in DOMAIN tl THEN tl[<<key, ws>>] ELSE NoTally
SetTally(tl, key, ws, v) ==
    [x \in (DOMAIN tl) \cup {<<key, ws>>} |-> IF x = <<key, ws>> THEN v ELSE tl[x]]

\* NewFixedWindow / NewSlidingWindow / NewTokenBucket: defaults, then Validate
ValidConfigs ==
    {WithDefaults(c) : c \in {x \in [algorithm : Algorithms, limit : Limits,
                                      window : Windows, prefix : Prefixes,
                                      failOpen : BOOLEAN] : Validate(x) = "ok"}}

Init ==
    /\ cfg \in ValidConfigs
    /\ clock = 0
    /\ store = EmptyStore
    /\ ret = Returned("none", Call("", "", 0, 0), "none", <<0, 0>>, NilResult(NoError))
    /\ nops = 0
    /\ nfaults = 0
    /\ tally = [x \in {} |-> NoTally]
    /\ bucket = [k \in Callers |-> [emptyAt |-> -1, since |-> 0, reset |-> FALSE]]
    /\ closed = {}

\* the clock values a driver may have read for a call whose script the store
\* runs at the present instant: the round trip takes time
ReadClocks == {t \in (clock - MaxLag)..clock : t >= 0 /\ t % ClockStep = 0}

\* ------------------------------------------------------------ AllowN
\* The store call of a call: the script the driver sends, with the arguments
\* the driver computed from the clock it read, run on the store at the
\* present instant, and the Result the driver builds from the reply.
ScriptRun(call) ==
    LET key == call.key
        n == call.n
        now == call.now
        ws == windowStartOf(cfg, now)
    IN CASE cfg.algorithm = "fixed_window" ->
              LET r == fixedWindowScript(store, formatKey(cfg, key, ws), n,
                                         WholeSeconds(cfg.window), clock)
              IN [store |-> r.store, counts |-> <<0, r.reply[1]>>,
                  out |-> fixedWindowDecide(cfg, r.reply[1], ws, clock), tokens |-> 0]
         [] cfg.algorithm = "sliding_window" ->
              LET r == slidingWindowScript(store, formatKey(cfg, key, ws),
                                           formatKey(cfg, key, prevWindowStartOf(cfg, now)),
                                           n, WholeSeconds(cfg.window),
                                           WholeSecondsTwice(cfg.window), clock)
              IN [store |-> r.store, counts |-> r.reply,
                  out |-> slidingWindowDecide(cfg, now, r.reply[1], r.reply[2], ws, clock),
                  tokens |-> 0]
         [] cfg.algorithm = "token_bucket" ->
              LET r == tokenBucketScript(store, FormatKey(cfg, key), cfg.limit, n,
                                         cfg.window, now, WholeSecondsTwice(cfg.window),
                                         clock)
              IN [store |-> r.store, counts |-> r.reply,
                  out |-> tokenBucketDecide(cfg, n, now, r.reply), tokens |-> r.tokens]

\* the reset_at the failure branch fills in
FailResetAt(call) ==
    IF cfg.algorithm = "token_bucket" THEN tbCalculateResetTime(cfg, call.now)
    ELSE calculateResetTime(cfg, windowStartOf(cfg, call.now))

TallyAfter(call, out) ==
    LET ws == Truncate(call.now, cfg.window)
        old == TallyOf(tally, call.key, ws)
    IN SetTally(tally, call.key, ws,
                [old EXCEPT !.calls = @ + 1, !.asked = @ + call.n,
                            !.admitted = IF out.allowed THEN @ + call.n ELSE @,
                            !.servers = IF out.allowed THEN @ \cup {call.srv} ELSE @,
                            !.late = @ \/ call.now < clock])

BucketAfter(call, r) ==
    IF cfg.algorithm # "token_bucket" THEN bucket
    ELSE LET b == bucket[call.key]
         IN IF b.emptyAt < 0
            THEN IF r.tokens = 0
                 THEN [bucket EXCEPT ![call.key].emptyAt = call.now]
                 ELSE bucket
            ELSE IF r.out.allowed
                 THEN [bucket EXCEPT ![call.key].since = @ + call.n]
                 ELSE bucket

\* AllowN(key, n) on a reachable store; Allow(key) is AllowN(key, 1).  The
\* driver read the clock at now; the store runs the script and the reply
\* reaches the driver, which builds the Result.
AllowN(key, n, now) ==
    /\ nops < MaxCalls
    /\ ~invalidN(n)
    /\ ServerFor(nops) \notin closed
    /\ LET call == Call(ServerFor(nops), key, n, now)
           r == ScriptRun(call)
       IN /\ store' = r.store
          /\ ret' = Returned("AllowN", call, "reply", r.counts, r.out)
          /\ tally' = TallyAfter(call, r.out)
          /\ bucket' = BucketAfter(call, r)
    /\ nops' = nops + 1
    /\ UNCHANGED <<cfg, clock, nfaults, closed>>

\* Allow(ctx, ""): no driver looks at the key before it formats the store key,
\* so the call runs like any other
AllowEmptyKey ==
    /\ nops < MaxCalls
    /\ ServerFor(nops) \notin closed
    /\ LET call == Call(ServerFor(nops), EmptyKey, 1, clock)
           r == ScriptRun(call)
       IN /\ store' = r.store
          /\ ret' = Returned("AllowN", call, "reply", r.counts, r.out)
    /\ nops' = nops + 1
    /\ UNCHANGED <<cfg, clock, nfaults, tally, bucket, closed>>

\* AllowN with n <= 0: ErrInvalidN before anything else happens
AllowNInvalid(key, n) ==
    /\ nops < MaxCalls
    /\ invalidN(n)
    /\ ret' = Returned("AllowN", Call(ServerFor(nops), key, n, clock), "rejected",
                       <<0, 0>>, NilResult(ErrInvalidN))
    /\ nops' = nops + 1
    /\ UNCHANGED <<cfg, clock, store, nfaults, tally, bucket, closed>>

\* AllowN whose store call fails before the script runs (connection refused,
\* timeout, context cancelled before the command is sent): Eval returns
\* err != nil
AllowNStoreFail(key, n, cause) ==
    /\ nops < MaxCalls
    /\ nfaults < MaxFaults
    /\ ~invalidN(n)
    /\ ServerFor(nops) \notin closed
    /\ LET call == Call(ServerFor(nops), key, n, clock)
       IN ret' = Returned("AllowN", call,
                          IF cause = ContextCanceled THEN "cancelled" ELSE "nostore",
                          <<0, 0>>, onStoreError(cfg, FailResetAt(call), cause))
    /\ nops' = nops + 1
    /\ nfaults' = nfaults + 1
    /\ UNCHANGED <<cfg, clock, store, tally, bucket, closed>>

\* AllowN whose script the store runs, but whose reply never reaches the
\* driver (connection lost, or context cancelled while the reply is awaited)
AllowNReplyLost(key, n, cause) ==
    /\ nops < MaxCalls
    /\ nfaults < MaxFaults
    /\ ~invalidN(n)
    /\ ServerFor(nops) \notin closed
    /\ LET call == Call(ServerFor(nops), key, n, clock)
       IN /\ store' = ScriptRun(call).store
          /\ ret' = Returned("AllowN", call,
                             IF cause = ContextCanceled THEN "cancelled-ran" ELSE "lost",
                             <<0, 0>>, onStoreError(cfg, FailResetAt(call), cause))
          /\ tally' = LET ws == Truncate(call.now, cfg.window)
                      IN SetTally(tally, key, ws,
                                  [TallyOf(tally, key, ws) EXCEPT !.lost = TRUE])
    /\ nops' = nops + 1
    /\ nfaults' = nfaults + 1
    /\ UNCHANGED <<cfg, clock, bucket, closed>>

\* AllowN on an instance whose Close has been called: the client refuses the
\* command, and the driver takes its failure branch
AllowNClosed(key, n) ==
    /\ nops < MaxCalls
    /\ ~invalidN(n)
    /\ ServerFor(nops) \in closed
    /\ LET call == Call(ServerFor(nops), key, n, clock)
       IN ret' = Returned("AllowN", call, "closed", <<0, 0>>,
                          onStoreError(cfg, FailResetAt(call), ClientClosed))
    /\ nops' = nops + 1
    /\ UNCHANGED <<cfg, clock, store, nfaults, tally, bucket, closed>>

\* ------------------------------------------------------------ Reset
\* Reset that deletes the key without the window start
ResetKeys_bare(key, now) == {FormatKey(cfg, key)}

\* Reset that deletes the current window's key only
ResetKeys_currOnly(key, now) ==
    IF cfg.algorithm = "token_bucket" THEN {FormatKey(cfg, key)}
    ELSE {formatKey(cfg, key, windowStartOf(cfg, now))}

\* the keys Reset deletes for a caller at instant now
ResetKeys(key, now) ==
    CASE cfg.algorithm = "fixed_window" -> {formatKey(cfg, key, windowStartOf(cfg, now))}
      [] cfg.algorithm = "sliding_window" ->
            {formatKey(cfg, key, windowStartOf(cfg, now)),
             formatKey(cfg, key, prevWindowStartOf(cfg, now))}
      [] cfg.algorithm = "token_bucket" -> {FormatKey(cfg, key)}

Reset(key) ==
    /\ nops < MaxCalls
    /\ ServerFor(nops) \notin closed
    /\ store' = Del(store, ResetKeys(key, clock))
    /\ ret' = Returned("Reset", Call(ServerFor(nops), key, 0, clock), "reply", <<0, 0>>,
                       NilResult(NoError))
    /\ tally' = SetTally(tally, key, Truncate(clock, cfg.window),
                         [TallyOf(tally, key, Truncate(clock, cfg.window))
                            EXCEPT !.reset = TRUE])
    /\ bucket' = IF cfg.algorithm = "token_bucket"
                 THEN [bucket EXCEPT ![key].reset = TRUE] ELSE bucket
    /\ nops' = nops + 1
    /\ UNCHANGED <<cfg, clock, nfaults, closed>>

\* Reset whose DEL fails
ResetFail(key) ==
    /\ nops < MaxCalls
    /\ nfaults < MaxFaults
    /\ ServerFor(nops) \notin closed
    /\ ret' = Returned("Reset", Call(ServerFor(nops), key, 0, clock), "nostore",
                       <<0, 0>>, onResetError(cfg, TransportError))
    /\ nops' = nops + 1
    /\ nfaults' = nfaults + 1
    /\ UNCHANGED <<cfg, clock, store, tally, bucket, closed>>

\* Reset on an instance whose Close has been called
ResetClosed(key) ==
    /\ nops < MaxCalls
    /\ ServerFor(nops) \in closed
    /\ ret' = Returned("Reset", Call(ServerFor(nops), key, 0, clock), "closed",
                       <<0, 0>>, onResetError(cfg, ClientClosed))
    /\ nops' = nops + 1
    /\ UNCHANGED <<cfg, clock, store, nfaults, tally, bucket, closed>>

\* ------------------------------------------------------------ Close
\* Close of the instance the next call reaches: client.Close(), which reports
\* an error for a client that is closed already
Close ==
    /\ nops < MaxCalls
    /\ closed' = closed \cup {ServerFor(nops)}
    /\ ret' = Returned("Close", Call(ServerFor(nops), "", 0, clock), "reply", <<0, 0>>,
                       onClose(IF ServerFor(nops) \in closed
                               THEN <<ClientClosed>> ELSE NoError))
    /\ nops' = nops + 1
    /\ UNCHANGED <<cfg, clock, store, nfaults, tally, bucket>>

\* Close whose release of the connections fails: the client is closed all the same
CloseFail ==
    /\ nops < MaxCalls
    /\ nfaults < MaxFaults
    /\ ServerFor(nops) \notin closed
    /\ closed' = closed \cup {ServerFor(nops)}
    /\ ret' = Returned("Close", Call(ServerFor(nops), "", 0, clock), "nostore", <<0, 0>>,
                       onClose(<<TransportError>>))
    /\ nops' = nops + 1
    /\ nfaults' = nfaults + 1
    /\ UNCHANGED <<cfg, clock, store, tally, bucket>>

\* ------------------------------------------------------------ time
\* Time passes; the store drops the keys that have expired.
Tick ==
    /\ clock + ClockStep <= MaxTime
    /\ clock' = clock + ClockStep
    /\ store' = Purge(store, clock + ClockStep)
    /\ UNCHANGED <<cfg, ret, nops, nfaults, tally, bucket, closed>>

Next ==
    \/ \E key \in Callers, n \in Costs(cfg) \cup BadCosts, now \in ReadClocks :
            AllowN(key, n, now)
    \/ AllowEmptyKey
    \/ \E key \in Callers, n \in Costs(cfg) \cup BadCosts : AllowNInvalid(key, n)
    \/ \E key \in Callers, n \in FailCosts, cause \in Causes : AllowNStoreFail(key, n, cause)
    \/ \E key \in Callers, n \in FailCosts, cause \in Causes : AllowNReplyLost(key, n, cause)
    \/ \E key \in Callers, n \in FailCosts : AllowNClosed(key, n)
    \/ \E key \in Callers : Reset(key)
    \/ \E key \in Callers : ResetFail(key)
    \/ \E key \in Callers : ResetClosed(key)
    \/ Close
    \/ CloseFail
    \/ Tick

Spec == Init /\ [][Next]_vars

\* one driver at a time: the limiter built by NewFixedWindow, NewSlidingWindow,
\* NewTokenBucket
InitFW == Init /\ cfg.algorithm = "fixed_window"
InitSW == Init /\ cfg.algorithm = "sliding_window"
InitTB == Init /\ cfg.algorithm = "token_bucket"
SpecFW == InitFW /\ [][Next]_vars
SpecSW == InitSW /\ [][Next]_vars
SpecTB == InitTB /\ [][Next]_vars

\* ------------------------------------------------------------ construction
\* What a caller may hand to NewFixedWindow / NewSlidingWindow / NewTokenBucket:
\* any Config value, valid or not, and a client that may be nil.
RawAlgorithms == Algorithms \cup {"", "leaky_bucket"}
RawLimits == {-1, 0} \cup Limits
\* 365 days, in ticks
MaxWindow == MaxWindowDays * SecondsPerDay * TicksPerSec
RawWindows == {-1, 0} \cup Windows \cup {MaxWindow, MaxWindow + 1}
\* Config.Prefix is a string: a prefix that was not specified is ""
RawPrefixes == {"", "app"}
NilClient == "nil"
Clients == {NilClient, "client"}
Configs ==
    [algorithm : RawAlgorithms, limit : RawLimits, window : RawWindows,
     prefix : RawPrefixes, failOpen : BOOLEAN]

\* The constructors: nil checks, WithDefaults, Validate.  In out, nil tells
\* that the RateLimiter handed back is nil; config is the limiter's config.
NewLimiter(client, c) ==
    IF client = NilClient
    THEN [how |-> "noclient", config |-> c,
          out |-> NilResult(<<"redis client cannot be nil">>)]
    ELSE LET d == WithDefaults(c)
         IN IF Validate(d) # "ok"
            THEN [how |-> "invalid", config |-> c,
                  out |-> NilResult(<<"invalid config", Validate(d)>>)]
            ELSE [how |-> "built", config |-> d,
                  out |-> Outcome(FALSE, FALSE, 0, 0, 0, ZeroTime, NoError)]

\* before construction: a Config value, and nothing else yet
InitNew ==
    /\ cfg \in Configs
    /\ clock = 0
    /\ store = EmptyStore
    /\ ret = Returned("none", Call("", "", 0, 0), "none", <<0, 0>>, NilResult(NoError))
    /\ nops = 0
    /\ nfaults = 0
    /\ tally = [x \in {} |-> NoTally]
    /\ bucket = [k \in Callers |-> [emptyAt |-> -1, since |-> 0, reset |-> FALSE]]
    /\ closed = {}

\* a constructor is called with the Config; the limiter holds the config with
\* the defaults applied
New(client) ==
    /\ ret.op = "none"
    /\ LET r == NewLimiter(client, cfg)
       IN /\ cfg' = r.config
          /\ ret' = Returned("New", Call("", "", 0, clock), r.how, <<0, 0>>, r.out)
    /\ UNCHANGED <<clock, store, nops, nfaults, tally, bucket, closed>>

NextNew == \E client \in Clients : New(client)

SpecNew == InitNew /\ [][NextNew]_vars

\* ------------------------------------------------------------ a longer run
\* One caller on a reachable store, followed tick by tick over several
\* windows: the calls are AllowN, each run by the store at the instant its
\* driver read the clock.
LongTime == 3 * MaxTime
\* a burst: one call that asks for far more than the limit
BurstCost == 3 * TicksPerSec
LongCosts(c) == {1, c.limit + 1, BurstCost}
LongCaller == "u"

InitLong == Init /\ ~cfg.failOpen

TickLong ==
    /\ clock + 1 <= LongTime
    /\ clock' = clock + 1
    /\ store' = Purge(store, clock + 1)
    /\ UNCHANGED <<cfg, ret, nops, nfaults, tally, bucket, closed>>

NextLong ==
    \/ \E n \in LongCosts(cfg) : AllowN(LongCaller, n, clock)
    \/ TickLong

SpecLong == InitLong /\ [][NextLong]_vars

\* ------------------------------------------------------------ a burst
\* One Token Bucket limiter with limit 10 and a window of 10 s (one unit per
\* second), one caller, followed tick by tick.
BurstConfig ==
    [algorithm |-> "token_bucket", limit |-> 10, window |-> 10 * TicksPerSec,
     prefix |-> DefaultPrefix, failOpen |-> FALSE]
BurstCosts == {1, 4, 10}

InitBurst ==
    /\ cfg = BurstConfig
    /\ Validate(cfg) = "ok"
    /\ clock = 0
    /\ store = EmptyStore
    /\ ret = Returned("none", Call("", "", 0, 0), "none", <<0, 0>>, NilResult(NoError))
    /\ nops = 0
    /\ nfaults = 0
    /\ tally = [x \in {} |-> NoTally]
    /\ bucket = [k \in Callers |-> [emptyAt |-> -1, since |-> 0, reset |-> FALSE]]
    /\ closed = {}

NextBurst ==
    \/ \E n \in BurstCosts : AllowN(LongCaller, n, clock)
    \/ TickLong

SpecBurst == InitBurst /\ [][NextBurst]_vars

\* ============================================================ claims
\* a step in which an AllowN call is decided by the store and returns
DecidedStep == nops' = nops + 1 /\ ret'.op = "AllowN" /\ ret'.how = "reply"
\* the call that returned last was an AllowN decided by the store
Decided(r) == r.op = "AllowN" /\ r.how = "reply"
\* the call that returned last was an AllowN whose store round trip failed
RoundTripFailed(r) ==
    r.op = "AllowN" /\ r.how \in {"nostore", "lost", "cancelled", "cancelled-ran"}
\* a window of a caller whose calls all ran at the store at the instant their
\* driver read the clock, with no Reset in it
Undisturbed(t) == ~t.reset /\ ~t.late

\* the store keys of a caller under the limiter's algorithm: the bucket key, or
\* the counter keys of every window start (in Unix seconds) of the horizon
WindowStarts == (0 - MaxTime)..MaxTime
KeysOf(key) ==
    IF cfg.algorithm = "token_bucket"
    THEN {FormatKey(cfg, key)}
    ELSE {formatKey(cfg, key, ws) : ws \in WindowStarts}
\* the current-window counter key of a call
CurrKey(key, now) == formatKey(cfg, key, Unix(Truncate(now, cfg.window)))
PrevKey(key, now) ==
    formatKey(cfg, key, Unix(Truncate(now, cfg.window)) - (cfg.window \div TicksPerSec))
\* time elapsed in the current window, as the sliding window driver measures it
ElapsedInWindow(now) == now - Unix(Truncate(now, cfg.window)) * TicksPerSec

\* C1: k concurrent Allow calls on a fresh key of one window: exactly
\* min(k, limit) of them are allowed, in whatever order the store runs their
\* scripts.  (Fixed Window; windows with no Reset, no lost reply and no
\* delayed script.)
C1_ExactlyMinAllowed ==
    cfg.algorithm = "fixed_window" =>
        \A x \in DOMAIN tally :
            (Undisturbed(tally[x]) /\ ~tally[x].lost /\ tally[x].asked = tally[x].calls)
                => tally[x].admitted = Min(tally[x].calls, cfg.limit)

\* C2: Fixed Window, store reachable, no Reset: for every valid config the
\* units admitted for one caller within one window never exceed the limit.
C2_FixedWindowBound ==
    cfg.algorithm = "fixed_window" =>
        \A x \in DOMAIN tally : Undisturbed(tally[x]) => tally[x].admitted <= cfg.limit

C4_TokenBucketBound ==
    cfg.algorithm = "token_bucket" =>
        \A k \in Callers :
            (bucket[k].emptyAt >= 0 /\ ~bucket[k].reset) =>
                bucket[k].since * cfg.window
                    <= cfg.limit * cfg.window + (clock - bucket[k].emptyAt) * cfg.limit
                       + cfg.window

\* C5: instances built from the same config and sharing the store enforce one
\* joint limit: what they admit together for one caller in one window never
\* exceeds the limit.
C5_JointLimit ==
    cfg.algorithm = "fixed_window" =>
        \A x \in DOMAIN tally :
            (Undisturbed(tally[x]) /\ tally[x].servers = Servers)
                => tally[x].admitted <= cfg.limit

\* C6: key independence: a call (Allow, AllowN, Reset, whatever its outcome)
\* on caller key A leaves every store entity of every other caller key B as
\* it was.
C6_KeyIndependence ==
    [][nops' = nops + 1 =>
          \A b \in Callers \ {ret'.key} : \A x \in KeysOf(b) :
              /\ Exists(store', x) <=> Exists(store, x)
              /\ Exists(store, x) => store'[x] = store[x]]_vars

\* C6 witness: caller "u" has just been denied by the store while the other
\* caller holds an entity in the store
C6_Witness ==
    /\ Decided(ret) /\ ~ret.out.allowed /\ ret.key = "u"
    /\ \E x \in KeysOf("u:0") : Exists(store, x)
    /\ \E x \in KeysOf("u") : Exists(store, x)

\* the units that were left for a caller when the store decided the call r
RemainingBefore(r) ==
    CASE cfg.algorithm = "fixed_window" -> cfg.limit - (r.counts[2] - r.n)
      [] cfg.algorithm = "sliding_window" ->
            (cfg.limit * cfg.window
               - (r.counts[1] * (cfg.window - ElapsedInWindow(r.now))
                  + (r.counts[2] - r.n) * cfg.window)) \div cfg.window
      [] cfg.algorithm = "token_bucket" -> r.out.remaining

\* C7: AllowN is all-or-nothing for every driver: after an AllowN(n) that was
\* denied while r units remained, an AllowN(m) with m <= r at the same
\* instant in the same window is allowed.
C7_DenialConsumesNothing ==
    [][(DecidedStep /\ Decided(ret) /\ ~ret.out.allowed /\ ret.key = ret'.key
          /\ ret.now = ret'.now /\ ret.at = clock /\ ret'.n <= RemainingBefore(ret))
          => ret'.out.allowed]_vars

\* C8: Fixed and Sliding Window: every AllowN(n) that reaches the store leaves
\* the current-window counter n higher than it found it, allowed or denied.
C8_CounterGrowsByN ==
    [][(DecidedStep /\ cfg.algorithm \in {"fixed_window", "sliding_window"}) =>
          GetOrZero(store', CurrKey(ret'.key, ret'.now))
            = GetOrZero(store, CurrKey(ret'.key, ret'.now)) + ret'.n]_vars

\* C9: fail-open: a failed store round trip with fail_open set gives no error
\* and the degraded Result allowed, limit 0, remaining 0, retry_after 0,
\* reset_at unset.
C9_FailOpenDegraded ==
    (RoundTripFailed(ret) /\ cfg.failOpen) =>
        ret.out = [nil |-> FALSE, allowed |-> TRUE, limit |-> 0, remaining |-> 0,
                   retryAfterL |-> 0, resetAt |-> ZeroTime, err |-> NoError]

\* C10: fail-closed: a failed store round trip with fail_open unset gives no
\* Result and an error that is ErrStorageUnavailable and wraps the cause.
C10_FailClosedClassified ==
    (RoundTripFailed(ret) /\ ~cfg.failOpen) =>
        /\ ret.out.nil /\ ~ret.out.allowed
        /\ \E i \in DOMAIN ret.out.err : ret.out.err[i] = "ErrStorageUnavailable"
        /\ \E i \in DOMAIN ret.out.err : ret.out.err[i] = TransportError

\* a chain of errors holds the error e (errors.Is)
Is(err, e) == \E i \in DOMAIN err : err[i] = e

\* C11: whenever the store is unavailable, Allow/AllowN hand back an error
\* that is not nil together with a Result that is not nil, whose Allowed is
\* Config.FailOpen.
C11_ErrorWithResult ==
    RoundTripFailed(ret) =>
        /\ ret.out.err # NoError
        /\ ~ret.out.nil
        /\ ret.out.allowed = cfg.failOpen

\* C12: after Close has returned, every Allow, AllowN (with n > 0) and Reset
\* on that limiter fails with ErrClosed, under fail-open as under fail-closed;
\* a closed limiter never hands back an allowed Result.
C12_ClosedFailsErrClosed ==
    [][(nops' = nops + 1 /\ ServerFor(nops) \in closed
          /\ (ret'.op = "Reset" \/ (ret'.op = "AllowN" /\ ret'.n > 0)))
          => Is(ret'.out.err, "ErrClosed") /\ ~ret'.out.allowed]_vars

\* C13: Allow/AllowN with the empty caller key return ErrInvalidKey and no
\* Result, and leave the store as it was.
C13_EmptyKeyRejected ==
    [][(nops' = nops + 1 /\ ret'.op = "AllowN" /\ ret'.key = EmptyKey)
          => ret'.out.nil /\ Is(ret'.out.err, "ErrInvalidKey") /\ store' = store]_vars

\* C14: AllowN with n <= 0 returns ErrInvalidN and no Result and makes no store
\* call: the store is as it was, no round trip is counted, and the outcome is
\* this one Result whatever the state of the store, of the client and of
\* fail_open.
C14_InvalidNRejected ==
    [][(nops' = nops + 1 /\ ret'.op = "AllowN" /\ ret'.n <= 0)
          => /\ ret'.out = [nil |-> TRUE, allowed |-> FALSE, limit |-> 0, remaining |-> 0,
                            retryAfterL |-> 0, resetAt |-> ZeroTime,
                            err |-> <<"ErrInvalidN">>]
             /\ store' = store
             /\ nfaults' = nfaults]_vars

\* C14 witness: a negative n was rejected under fail-open, on a store that
\* holds state, after a store round trip had failed
C14_Witness ==
    /\ ret.op = "AllowN" /\ ret.n < 0 /\ ret.out.nil
    /\ cfg.failOpen /\ nfaults > 0 /\ DOMAIN store # {}

\* C15: after a Reset(key) that succeeded, the next AllowN(key, n) with
\* n <= limit and no call in between is allowed with remaining = limit - n,
\* whatever the key's history.
C15_ResetThenAllowed ==
    [][(DecidedStep /\ ret.op = "Reset" /\ ret.how = "reply" /\ ret'.key = ret.key
          /\ ret'.n <= cfg.limit /\ ret'.now >= ret.at)
          => ret'.out.allowed /\ ret'.out.remaining = cfg.limit - ret'.n]_vars

\* C15 witness: a window driver allowed a call in a window in which the caller
\* had asked for more than the limit before and a Reset fell
C15_Witness ==
    /\ cfg.algorithm # "token_bucket" /\ cfg.window = TicksPerSec
    /\ Decided(ret) /\ ret.out.allowed /\ ret.key # EmptyKey
    /\ LET t == TallyOf(tally, ret.key, Truncate(ret.now, cfg.window))
       IN t.reset /\ ~t.late /\ t.asked > cfg.limit + ret.n

\* the store keys that make up a caller's entity at an instant: the bucket, the
\* current counter, or the current and the previous counter as the sliding
\* window driver designates them
EntityKeys(key, now) ==
    CASE cfg.algorithm = "token_bucket" -> {FormatKey(cfg, key)}
      [] cfg.algorithm = "fixed_window" -> {CurrKey(key, now)}
      [] cfg.algorithm = "sliding_window" -> {CurrKey(key, now), PrevKey(key, now)}

C17_ResetCloseSurfaceErrors ==
    /\ (ret.op = "Reset" /\ ret.how = "nostore")
          => ret.out.err = <<"failed to reset rate limit", TransportError>>
    /\ (ret.op = "Reset" /\ ret.how = "closed")
          => ret.out.err = <<"failed to reset rate limit", ClientClosed>>
    /\ (ret.op = "Close" /\ ret.how = "nostore") => ret.out.err = <<TransportError>>

\* C17 witness: a Reset failed at the store under fail-open
C17_Witness == ret.op = "Reset" /\ ret.how = "nostore" /\ cfg.failOpen

\* C18: an Allow/AllowN whose context is cancelled, before or during the store
\* round trip, goes through the failure policy: under fail-closed an error
\* that wraps the cancellation and no Result, under fail-open the degraded
\* allowed Result (limit 0, remaining 0, retry_after 0, reset_at unset, no
\* error).
C18_CancelThroughPolicy ==
    (ret.op = "AllowN" /\ ret.how \in {"cancelled", "cancelled-ran"}) =>
        IF cfg.failOpen
        THEN /\ ~ret.out.nil /\ ret.out.allowed /\ ret.out.err = NoError
             /\ ret.out.limit = 0 /\ ret.out.remaining = 0
             /\ ret.out.retryAfterL = 0 /\ ret.out.resetAt = ZeroTime
        ELSE ret.out.nil /\ Is(ret.out.err, ContextCanceled)

\* C19: every Result of every driver has 0 <= remaining <= limit.
C19_RemainingInRange ==
    (ret.op = "AllowN" /\ ~ret.out.nil) =>
        0 <= ret.out.remaining /\ ret.out.remaining <= cfg.limit

\* C20: a Result with allowed = false has remaining = 0, for all three drivers.
C20_DeniedRemainingZero ==
    (ret.op = "AllowN" /\ ~ret.out.nil /\ ~ret.out.allowed) => ret.out.remaining = 0

\* C21: in every Result retry_after >= 0, and retry_after = 0 when the call
\* is allowed; a call the store denied has retry_after > 0, and for Fixed
\* Window it is at most the window.  (retry_after is held times the limit;
\* the denied calls looked at are those whose round trip took no time.)
C21_RetryAfterSign ==
    (ret.op = "AllowN" /\ ~ret.out.nil) =>
        /\ ret.out.retryAfterL >= 0
        /\ ret.out.allowed => ret.out.retryAfterL = 0
        /\ (Decided(ret) /\ ~ret.out.allowed /\ ret.now = ret.at) =>
              /\ ret.out.retryAfterL > 0
              /\ cfg.algorithm = "fixed_window"
                    => ret.out.retryAfterL <= cfg.window * cfg.limit

\* a Config meets the invariants of the configuration
ConfigInvariants(c) ==
    /\ c.limit > 0
    /\ c.window >= MinWindow
    /\ c.window <= MaxWindow
    /\ c.algorithm \in Algorithms

\* C22: a limiter is constructed if and only if limit > 0, 1 ms <= window <=
\* 365 d and the algorithm is one of the three; otherwise construction gives
\* no limiter and an error that is ErrInvalidConfig and tells the field.
C22_ConstructedIffValid ==
    (ret.op = "New" /\ ret.how # "noclient") =>
        /\ ~ret.out.nil <=> ConfigInvariants(cfg)
        /\ ~ret.out.nil => ret.out.err = NoError
        /\ ret.out.nil =>
              /\ Is(ret.out.err, "ErrInvalidConfig")
              /\ \/ cfg.algorithm \notin Algorithms
                      /\ (Is(ret.out.err, "algorithm is required")
                            \/ Is(ret.out.err, "unknown algorithm"))
                 \/ cfg.limit <= 0 /\ Is(ret.out.err, "limit must be greater than 0")
                 \/ cfg.window <= 0 /\ Is(ret.out.err, "window must be greater than 0")
                 \/ cfg.window > MaxWindow /\ Is(ret.out.err, "window too large")
                 \/ cfg.window > 0 /\ Is(ret.out.err, "window too small")

\* the store keys of a caller with no prefix: "<caller>" for the bucket,
\* "<caller>:<window start>" for the counters
UnprefixedKeysOf(key) ==
    IF cfg.algorithm = "token_bucket" THEN {key}
    ELSE {key \o ":" \o ToString(ws) : ws \in WindowStarts}

\* C23: a limiter constructed with the prefix "" keeps its entities under
\* unprefixed keys; a limiter constructed with another prefix under
\* "<prefix>:<caller>[:<window start>]".
C23_EmptyPrefixUnprefixed ==
    [][(ret'.op = "New" /\ ret'.how = "built" /\ ret.op = "none") =>
          \A key \in Callers :
              IF cfg.prefix = ""
              THEN KeysOf(key)' = UnprefixedKeysOf(key)
              ELSE KeysOf(key)' = {cfg.prefix \o ":" \o x : x \in UnprefixedKeysOf(key)}]_vars

\* C24: Fixed Window, one key, one window, no Reset, store reachable: the
\* i-th AllowN(n_i) in the order the store runs them is allowed iff
\* n_1 + ... + n_i <= limit, and reports the configured limit and
\* remaining = max(0, limit - (n_1 + ... + n_i)).
C24_FixedWindowExact ==
    (cfg.algorithm = "fixed_window" /\ Decided(ret) /\ ret.key # EmptyKey) =>
        LET t == TallyOf(tally, ret.key, Truncate(ret.now, cfg.window))
        IN (Undisturbed(t) /\ ~t.lost) =>
              /\ ret.out.allowed <=> t.asked <= cfg.limit
              /\ ret.out.limit = cfg.limit
              /\ ret.out.remaining = Max(0, cfg.limit - t.asked)

\* C25: Sliding Window: the progress (now - current_window_start) / window
\* that AllowN uses lies in [0, 1]; the call is allowed iff
\* w = previous_count * (1 - progress) + current_count <= limit, and
\* remaining = max(0, limit - floor(w)).  (The counts are the script's reply;
\* w is held times the window.)
C25_ProgressInUnitRange ==
    (cfg.algorithm = "sliding_window" /\ Decided(ret)) =>
        LET e == ElapsedInWindow(ret.now)
            wW == ret.counts[1] * (cfg.window - e) + ret.counts[2] * cfg.window
        IN /\ 0 <= e /\ e <= cfg.window
           /\ ret.out.allowed <=> wW <= cfg.limit * cfg.window
           /\ ret.out.remaining = Max(0, cfg.limit - (wW \div cfg.window))

\* C26: for each of the three drivers an AllowN with n > limit that the store
\* decides is never allowed, in any state and for every valid config, and
\* returns a Result with a retry_after.
C26_OverLimitDenied ==
    (Decided(ret) /\ ret.n > cfg.limit) =>
        /\ ~ret.out.allowed
        /\ ~ret.out.nil /\ ret.out.err = NoError
        /\ ret.out.retryAfterL >= 0

\* C27: Sliding Window: the counter of window k stays alive through the whole
\* of window k+1: every call in window k+1 reads as previous_count the final
\* value of window k's counter (the sum of what the calls of window k asked
\* for), whenever in window k the counter was created and whenever the first
\* call of window k+1 arrives.  (Windows of whole seconds.)
C27_PrevCounterAlive ==
    (cfg.algorithm = "sliding_window" /\ cfg.window % TicksPerSec = 0
        /\ Decided(ret) /\ ret.key # EmptyKey) =>
        ret.counts[1]
            = TallyOf(tally, ret.key, Truncate(ret.now, cfg.window) - cfg.window).asked

\* C28: Sliding Window key continuity, for every valid window: the previous
\* window key that a call in window k+1 computes is the current window key
\* that the calls of window k incremented.
C28_KeyContinuity ==
    [][(DecidedStep /\ cfg.algorithm = "sliding_window" /\ Decided(ret)
          /\ ret'.key = ret.key
          /\ Truncate(ret'.now, cfg.window) = Truncate(ret.now, cfg.window) + cfg.window)
          => PrevKey(ret'.key, ret'.now) = CurrKey(ret.key, ret.now)]_vars

\* C29: Fixed Window counter lifecycle: the call that creates the counter key
\* sets its TTL to the window, a later increment leaves the TTL as it is, and
\* so every counter key that exists has a TTL and is gone at most one window
\* after its creation.
C29_FixedWindowLifecycle ==
    [][(DecidedStep /\ cfg.algorithm = "fixed_window") =>
          LET k == CurrKey(ret'.key, ret'.now)
          IN /\ Exists(store', k)
             /\ ~Exists(store, k) => store'[k].exp = clock + cfg.window
             /\ Exists(store, k) => store'[k].exp = store[k].exp
             /\ \A x \in DOMAIN store' :
                    store'[x].exp # NoExpiry /\ store'[x].exp <= clock + cfg.window]_vars

C31_BoundaryBounded ==
    cfg.algorithm = "fixed_window" =>
        \A x \in DOMAIN tally :
            Undisturbed(tally[x]) => tally[x].admitted <= 2 * cfg.limit

\* C32: Token Bucket script: when the now it is handed is earlier than the
\* stored last_refill, elapsed is taken as 0, so the refill step never lowers
\* the token count: the tokens the script writes, with what an allowed call
\* consumed added back, are no fewer than the tokens it read.
C32_NoNegativeRefill ==
    [][(DecidedStep /\ cfg.algorithm = "token_bucket"
          /\ Exists(store, FormatKey(cfg, ret'.key))
          /\ Exists(store', FormatKey(cfg, ret'.key))
          /\ ret'.now < store[FormatKey(cfg, ret'.key)].last)
          => store'[FormatKey(cfg, ret'.key)].tokens
               + (IF ret'.out.allowed THEN ret'.n * cfg.window ELSE 0)
             >= store[FormatKey(cfg, ret'.key)].tokens]_vars

\* C33: Token Bucket state invariant: after any sequence of AllowN calls on a
\* key, in any order of timestamps, the stored tokens are within
\* 0 <= tokens <= limit.  (Tokens are held times the window.)
C33_TokensInRange ==
    cfg.algorithm = "token_bucket" =>
        \A k \in DOMAIN store :
            0 <= store[k].tokens /\ store[k].tokens <= cfg.limit * cfg.window

\* the bucket of a caller as a call finds it: the stored state, or a full
\* bucket last refilled at the call's now when there is none
BucketBefore(key, now) ==
    IF Exists(store, FormatKey(cfg, key))
    THEN [tokens |-> store[FormatKey(cfg, key)].tokens,
          last |-> store[FormatKey(cfg, key)].last]
    ELSE [tokens |-> cfg.limit * cfg.window, last |-> now]

\* C34: Token Bucket: a denied AllowN(n) subtracts nothing: the bucket it
\* leaves holds the refilled tokens and last_refill = now, the Result reports
\* remaining = floor(tokens), and an AllowN(m) with m <= that remaining that
\* follows at once is allowed.
C34_DenialKeepsTokens ==
    [][(DecidedStep /\ cfg.algorithm = "token_bucket") =>
          LET k == FormatKey(cfg, ret'.key)
              b == BucketBefore(ret'.key, ret'.now)
          IN /\ ~ret'.out.allowed =>
                   /\ Exists(store', k)
                   /\ store'[k].last = ret'.now
                   /\ store'[k].tokens
                        = Min(cfg.limit * cfg.window,
                              b.tokens + (ret'.now - b.last) * cfg.limit)
                   /\ ret'.out.remaining = store'[k].tokens \div cfg.window
             /\ (Decided(ret) /\ ~ret.out.allowed /\ ret.key = ret'.key
                   /\ ret.now = ret'.now /\ ret.at = clock
                   /\ ret'.n <= ret.out.remaining)
                   => ret'.out.allowed]_vars

\* the first two calls of the burst scenario: on a fresh key AllowN(10) is
\* allowed with remaining 0, and an Allow at the same instant is denied with
\* retry_after = 1 s
BurstOpening ==
    /\ (nops = 0 /\ ret'.n = 10) => ret'.out.allowed /\ ret'.out.remaining = 0
    /\ (nops = 1 /\ ret.n = 10 /\ ret'.n = 1 /\ ret'.now = ret.now)
          => ~ret'.out.allowed /\ ret'.out.retryAfterL = TicksPerSec * cfg.limit
\* the third call of the burst scenario: AllowN(4) half a second after the
\* AllowN(10) that emptied the bucket and the Allow that was denied
BurstThirdCall ==
    /\ nops = 2 /\ ret.n = 1 /\ ~ret.out.allowed
    /\ bucket[ret.key].emptyAt = ret.now
    /\ ret'.n = 4 /\ ret'.now = ret.now + (TicksPerSec \div 2)

\* C35: Token Bucket with limit 10 and window 10 s: on a fresh key AllowN(10)
\* is allowed with remaining 0, an Allow at once is denied with retry_after
\* of 1 s, and after 500 ms AllowN(4) is allowed.
C35_BurstScenario ==
    [][(DecidedStep /\ cfg = BurstConfig) =>
          /\ BurstOpening
          /\ BurstThirdCall => ret'.out.allowed]_vars

\* C35 as the code has it: after 500 ms half a unit has been refilled, and
\* AllowN(4) is denied with remaining 0 and retry_after of 4 s.
C35_BurstScenarioAmended ==
    [][(DecidedStep /\ cfg = BurstConfig) =>
          /\ BurstOpening
          /\ BurstThirdCall =>
                /\ ~ret'.out.allowed /\ ret'.out.remaining = 0
                /\ ret'.out.retryAfterL = 4 * TicksPerSec * cfg.limit]_vars

\* C35 witness: the third call of the scenario has returned, denied
C35_Witness ==
    /\ cfg = BurstConfig /\ nops = 3
    /\ Decided(ret) /\ ret.n = 4 /\ ~ret.out.allowed
    /\ ret.now = bucket[ret.key].emptyAt + (TicksPerSec \div 2)
    /\ LET t == TallyOf(tally, ret.key, Truncate(ret.now, cfg.window))
       IN t.calls = 3 /\ t.asked = 15 /\ t.admitted = 10


\* the token count (times the window) the script holds after its refill step,
\* for a call at `now` on the bucket as stored
RefilledTokens(key, now) ==
    Min(cfg.limit * cfg.window,
        BucketBefore(key, now).tokens
          + (now - BucketBefore(key, now).last) * cfg.limit)
\* (n - tokens) / refill_rate, the wait until the bucket holds n tokens, for
\* the call that has just been denied; as retryAfterL, times the limit
TrueWaitL(r, tokens) == r.n * cfg.window - tokens

\* C36: the Token Bucket retry_after never exceeds the true wait
\* (n - tokens) / refill_rate and falls short of it by less than one refill
\* quantum 1 / refill_rate.
C36_RetryLowerBound ==
    [][(DecidedStep /\ cfg.algorithm = "token_bucket" /\ ~ret'.out.allowed) =>
          LET w == TrueWaitL(ret', RefilledTokens(ret'.key, ret'.now))
          IN /\ ret'.out.retryAfterL <= w
             /\ w - ret'.out.retryAfterL < cfg.window]_vars

\* C36 as the code has it: the Token Bucket retry_after is never less than
\* the true wait (n - tokens) / refill_rate and exceeds it by less than one
\* refill quantum 1 / refill_rate.
C36_RetryUpperBound ==
    [][(DecidedStep /\ cfg.algorithm = "token_bucket" /\ ~ret'.out.allowed) =>
          LET w == TrueWaitL(ret', RefilledTokens(ret'.key, ret'.now))
          IN /\ ret'.out.retryAfterL >= w
             /\ ret'.out.retryAfterL - w < cfg.window]_vars

\* C36 witness: a call was denied on a bucket holding a fraction of a token,
\* and its retry_after is longer than the true wait
C36_Witness ==
    /\ cfg.algorithm = "token_bucket"
    /\ Decided(ret) /\ ~ret.out.allowed /\ ret.at = clock
    /\ Exists(store, FormatKey(cfg, ret.key))
    /\ store[FormatKey(cfg, ret.key)].last = ret.now
    /\ store[FormatKey(cfg, ret.key)].tokens % cfg.window # 0
    /\ ret.out.retryAfterL > TrueWaitL(ret, store[FormatKey(cfg, ret.key)].tokens)


\* the step retries the call that was denied last (same key, same cost, no
\* call in between), exactly retry_after later, neither call delayed
RetryStep ==
    /\ DecidedStep /\ Decided(ret)
    /\ ~ret.out.allowed /\ ret.n <= cfg.limit /\ ret.now = ret.at
    /\ ret'.key = ret.key /\ ret'.n = ret.n /\ ret'.now = clock
    /\ (ret'.now - ret.now) * cfg.limit = ret.out.retryAfterL

\* C37: for each driver, an AllowN(n) with n <= limit that was denied at t
\* with retry_after = r is allowed when issued again at t + r, no other call
\* having touched the key.
C37_RetryAfterHonoured ==
    [][RetryStep => ret'.out.allowed]_vars


\* C38: for Fixed and Sliding Window every Result the store decided has
\* reset_at = start of the current window + window, with
\* now < reset_at <= now + window, for every valid window.
C38_ResetAtEndOfWindow ==
    (Decided(ret) /\ cfg.algorithm \in {"fixed_window", "sliding_window"}) =>
        /\ ret.out.resetAt = Truncate(ret.now, cfg.window) + cfg.window
        /\ ret.now < ret.out.resetAt
        /\ ret.out.resetAt <= ret.now + cfg.window


\* the step is an AllowN whose script ran at the store and whose reply was
\* lost, or whose context was cancelled while the reply was awaited
LostReplyStep ==
    nops' = nops + 1 /\ ret'.op = "AllowN" /\ ret'.how \in {"lost", "cancelled-ran"}
\* fail-closed, counter drivers: in the window the clock is in, with no Reset,
\* the units admitted for a caller are at most the window's counter
AdmittedWithinRecorded ==
    (~cfg.failOpen /\ cfg.algorithm \in {"fixed_window", "sliding_window"}) =>
        \A x \in DOMAIN tally :
            (~tally[x].reset /\ x[2] <= clock /\ clock < x[2] + cfg.window)
                => tally[x].admitted <= GetOrZero(store, CurrKey(x[1], x[2]))

\* C39: when the store ran a script and the reply was lost or the call was
\* cancelled, the store keeps the script's update and the caller gets the
\* failure-policy outcome; and in fail-closed mode the units admitted for a
\* key never exceed the units recorded in the store for it.
C39_NoCompensation ==
    [][/\ LostReplyStep =>
             LET call == Call("", ret'.key, ret'.n, ret'.now)
             IN /\ store' = ScriptRun(call).store
                /\ ret'.out = onStoreError(cfg, FailResetAt(call),
                                           IF ret'.how = "lost" THEN TransportError
                                           ELSE ContextCanceled)
       /\ AdmittedWithinRecorded']_vars


\* C40: for every valid config the TTL handed to the store is never 0 and at
\* least the window (Fixed and Sliding current counter), at least twice the
\* window (Sliding previous counter, Token Bucket state); so a counter lives
\* to the end of its own window, and a bucket for at least the window after
\* its last write, the time a continuous refill takes to fill it.
C40_TTLAdequate ==
    Decided(ret) =>
        /\ WholeSeconds(cfg.window) # 0 /\ WholeSecondsTwice(cfg.window) # 0
        /\ cfg.algorithm \in {"fixed_window", "sliding_window"}
              => FromUnix(WholeSeconds(cfg.window)) >= cfg.window
        /\ cfg.algorithm \in {"sliding_window", "token_bucket"}
              => FromUnix(WholeSecondsTwice(cfg.window)) >= 2 * cfg.window
        /\ (cfg.algorithm \in {"fixed_window", "sliding_window"}
              /\ clock < Truncate(ret.now, cfg.window) + cfg.window)
              => Exists(store, CurrKey(ret.key, ret.now))
        /\ (cfg.algorithm = "token_bucket" /\ clock < ret.at + cfg.window)
              => Exists(store, FormatKey(cfg, ret.key))

====
